---- MODULE Spec2Model ----
(***************************************************************************)
(* uargparse: a minimal argparse.  Model of src/uargparse.py.              *)
(*                                                                         *)
(* Strings (tokens, spellings, dests) are sequences of one-character       *)
(* strings, so that startswith / lstrip / replace are computed.            *)
(* Python values are tagged records [t, v]:                                *)
(*   None, str, int, bool, list (v = sequence of values).                  *)
(***************************************************************************)
EXTENDS Integers, Sequences, FiniteSets, TLC

VARIABLES
    opt,            \* ArgumentParser.opt : sequence of _Arg (named specs)
    pos,            \* ArgumentParser.pos : sequence of _Arg (positional specs)
    argv,           \* the caller's token list passed to parse_args/parse_known_args
    args,           \* _parse_args: the working copy args[:] consumed from the front
    return_unknown, \* _parse_args: tolerant mode flag
    arg_dest,       \* _parse_args: field names collected so far
    arg_vals,       \* _parse_args: field values collected so far
    unknown,        \* _parse_args: leftover tokens (tolerant mode)
    parsed_pos,     \* _parse_args: positional phase entered
    pc,             \* position of the caller: idle, loop, check, returned, exit0, exit2
    err,            \* the _ArgError raised (kind and detail), or NoErr
    values          \* the record returned: sequence of <<dest, value>>, or <<>>

vars == <<opt, pos, argv, args, return_unknown, arg_dest, arg_vals, unknown,
          parsed_pos, pc, err, values>>

----------------------------------------------------------------------------
(* Bounds *)

MaxArgs == 3        \* longest token list handed to a parse call
MaxGrow == 1        \* a new parse call is started only while every list
                    \* default is at most this long (caps the growth of C3)

----------------------------------------------------------------------------
(* Python values *)

None == [t |-> "None", v |-> <<>>]
Absent == [t |-> "absent", v |-> <<>>]     \* key not present in kwargs
StrV(s) == [t |-> "str", v |-> s]
IntV(n) == [t |-> "int", v |-> n]
BoolV(b) == [t |-> "bool", v |-> b]
ListV(s) == [t |-> "list", v |-> s]

(* Tokens of the command line *)
tO  == <<"-", "-", "o">>
tX  == <<"-", "-", "x">>
tU  == <<"-", "-", "u">>
tH  == <<"-", "h">>
tHelp == <<"-", "-", "h", "e", "l", "p">>
tDD == <<"-", "-">>
tD  == <<"-">>
tA  == <<"a">>
t3  == <<"3">>

Tokens == {tO, tX, tU, tH, tDD, tD, tA, t3}

RECURSIVE SeqsUpTo(_, _)
SeqsUpTo(S, n) ==
    IF n = 0 THEN {<<>>}
    ELSE LET shorter == SeqsUpTo(S, n - 1)
         IN  shorter \cup {Append(s, e) : s \in {q \in shorter : Len(q) = n - 1}, e \in S}

Range(s) == {s[i] : i \in 1..Len(s)}

----------------------------------------------------------------------------
(* str methods *)

StartsWith(s, p) == Len(s) >= Len(p) /\ SubSeq(s, 1, Len(p)) = p

RECURSIVE LStrip(_, _)
LStrip(s, c) == IF s # <<>> /\ s[1] = c THEN LStrip(Tail(s), c) ELSE s

Replace(s, old, new) == [i \in 1..Len(s) |-> IF s[i] = old THEN new ELSE s[i]]

(* args[0].startswith("-") and args[0] != "-"   (line 66) *)
LooksLikeOpt(tok) == StartsWith(tok, <<"-">>) /\ tok # tD

(* args[0].startswith("-") and args[0] != "-" and args[0] != "--"  (line 221) *)
IsOptionToken(tok) == StartsWith(tok, <<"-">>) /\ tok # tD /\ tok # tDD

----------------------------------------------------------------------------
(* Converters: arg_type(_arg).  str is the identity on str; int parses an  *)
(* optional sign and decimal digits and raises ValueError otherwise.       *)

Digits == <<"0", "1", "2", "3", "4", "5", "6", "7", "8", "9">>
IsDigit(c) == \E d \in 1..10 : Digits[d] = c
DigitVal(c) == (CHOOSE d \in 1..10 : Digits[d] = c) - 1

RECURSIVE DecVal(_, _)
DecVal(s, acc) == IF s = <<>> THEN acc ELSE DecVal(Tail(s), acc * 10 + DigitVal(s[1]))

AllDigits(s) == s # <<>> /\ \A i \in 1..Len(s) : IsDigit(s[i])

IntConv(s) ==
    IF AllDigits(s) THEN [ok |-> TRUE, val |-> IntV(DecVal(s, 0))]
    ELSE IF s # <<>> /\ s[1] = "-" /\ AllDigits(Tail(s))
         THEN [ok |-> TRUE, val |-> IntV(0 - DecVal(Tail(s), 0))]
         ELSE [ok |-> FALSE, val |-> None]

Convert(arg_type, s) ==
    IF arg_type = "int" THEN IntConv(s) ELSE [ok |-> TRUE, val |-> StrV(s)]

----------------------------------------------------------------------------
(* _ArgError *)

NoErr == [kind |-> "none", detail |-> <<>>]
Error(k, d) == [kind |-> k, detail |-> d]

----------------------------------------------------------------------------
(* _Arg.parse *)

(* a _checked that skips the converter *)
Checked_NoConvert(spec, tok) ==
    IF spec.choices # <<>> /\ StrV(tok) \notin Range(spec.choices)
    THEN [ok |-> FALSE, val |-> None, err |-> Error("InvalidChoice", tok)]
    ELSE [ok |-> TRUE, val |-> StrV(tok), err |-> NoErr]

(* _checked(_arg), lines 32-41 *)
Checked(spec, tok) ==
    IF spec.choices # <<>> /\ StrV(tok) \notin Range(spec.choices)
    THEN [ok |-> FALSE, val |-> None, err |-> Error("InvalidChoice", tok)]
    ELSE LET c == Convert(spec.arg_type, tok)
         IN  IF c.ok THEN [ok |-> TRUE, val |-> c.val, err |-> NoErr]
             ELSE [ok |-> FALSE, val |-> None, err |-> Error("InvalidValue", tok)]

(* a loop that never looks at the count *)
RECURSIVE Collect_NoCount(_, _, _, _, _)
Collect_NoCount(spec, a, n, ret, stop_at_opt) ==
    IF a = <<>>
    THEN [ok |-> TRUE, ret |-> ret, rest |-> a, n |-> n, err |-> NoErr]
    ELSE IF stop_at_opt /\ LooksLikeOpt(a[1])
         THEN IF a[1] = tDD
              THEN Collect_NoCount(spec, Tail(a), n, ret, FALSE)
              ELSE [ok |-> TRUE, ret |-> ret, rest |-> a, n |-> n, err |-> NoErr]
         ELSE LET c == Checked(spec, a[1])
              IN  IF c.ok
                  THEN Collect_NoCount(spec, Tail(a), n - 1, Append(ret, c.val), stop_at_opt)
                  ELSE [ok |-> FALSE, ret |-> ret, rest |-> Tail(a), n |-> n, err |-> c.err]

(* a loop that drops `--` but keeps stopping at option-looking tokens *)
RECURSIVE Collect_KeepStop(_, _, _, _, _)
Collect_KeepStop(spec, a, n, ret, stop_at_opt) ==
    IF a = <<>> \/ n = 0
    THEN [ok |-> TRUE, ret |-> ret, rest |-> a, n |-> n, err |-> NoErr]
    ELSE IF stop_at_opt /\ LooksLikeOpt(a[1])
         THEN IF a[1] = tDD
              THEN Collect_KeepStop(spec, Tail(a), n, ret, TRUE)
              ELSE [ok |-> TRUE, ret |-> ret, rest |-> a, n |-> n, err |-> NoErr]
         ELSE LET c == Checked(spec, a[1])
              IN  IF c.ok
                  THEN Collect_KeepStop(spec, Tail(a), n - 1, Append(ret, c.val), stop_at_opt)
                  ELSE [ok |-> FALSE, ret |-> ret, rest |-> Tail(a), n |-> n, err |-> c.err]

(* the while loop of lines 65-74; yields the state at loop exit *)
RECURSIVE Collect(_, _, _, _, _)
Collect(spec, a, n, ret, stop_at_opt) ==
    IF a = <<>> \/ n = 0
    THEN [ok |-> TRUE, ret |-> ret, rest |-> a, n |-> n, err |-> NoErr]
    ELSE IF stop_at_opt /\ LooksLikeOpt(a[1])
         THEN IF a[1] = tDD
              THEN Collect(spec, Tail(a), n, ret, FALSE)
              ELSE [ok |-> TRUE, ret |-> ret, rest |-> a, n |-> n, err |-> NoErr]
         ELSE LET c == Checked(spec, a[1])
              IN  IF c.ok
                  THEN Collect(spec, Tail(a), n - 1, Append(ret, c.val), stop_at_opt)
                  ELSE [ok |-> FALSE, ret |-> ret, rest |-> Tail(a), n |-> n, err |-> c.err]

MissingValueErr(spec) == Error("MissingValue", spec.dest)

(* an _Arg.parse without the empty check of one-or-more, lines 58-59 *)
ArgParse_PlusUnchecked(spec, a) ==
    IF spec.action \in {"store", "append"} /\ spec.nargs.kind = "+" /\ a = <<>>
    THEN [ok |-> TRUE, val |-> ListV(<<>>), rest |-> a, err |-> NoErr]
    ELSE IF spec.action \in {"store", "append"} /\ spec.nargs.kind \in {"None", "?"}
    THEN IF a # <<>>
         THEN LET c == Checked(spec, a[1])
              IN  [ok |-> c.ok, val |-> c.val, rest |-> Tail(a), err |-> c.err]
         ELSE IF spec.nargs.kind = "?"
              THEN [ok |-> TRUE, val |-> spec.default, rest |-> a, err |-> NoErr]
              ELSE [ok |-> FALSE, val |-> None, rest |-> a, err |-> MissingValueErr(spec)]
    ELSE IF spec.action \in {"store", "append"}
    THEN LET n0 == IF spec.nargs.kind \in {"*", "+"} THEN -1 ELSE spec.nargs.n
             r  == Collect(spec, a, n0, <<>>, TRUE)
         IN  IF ~r.ok
             THEN [ok |-> FALSE, val |-> None, rest |-> r.rest, err |-> r.err]
             ELSE IF r.n > 0
             THEN [ok |-> FALSE, val |-> None, rest |-> r.rest, err |-> MissingValueErr(spec)]
             ELSE [ok |-> TRUE, val |-> ListV(r.ret), rest |-> r.rest, err |-> NoErr]
    ELSE [ok |-> TRUE, val |-> spec.const, rest |-> a, err |-> NoErr]

(* an _Arg.parse whose store_const branch takes a value token like store *)
ArgParse_ConstPops(spec, a) ==
    IF a # <<>>
    THEN LET c == Checked(spec, a[1])
         IN  [ok |-> c.ok,
              val |-> IF spec.action = "store_const" THEN spec.const ELSE c.val,
              rest |-> Tail(a), err |-> c.err]
    ELSE [ok |-> spec.action = "store_const", val |-> spec.const, rest |-> a,
          err |-> IF spec.action = "store_const" THEN NoErr ELSE MissingValueErr(spec)]

(* _Arg.parse(optname, args), lines 30-86: the value returned (or the      *)
(* error raised) and what is left of args                                  *)
ArgParse(spec, a) ==
    IF spec.action = "store" \/ spec.action = "append"
    THEN IF spec.nargs.kind = "None"
         THEN IF a # <<>>
              THEN LET c == Checked(spec, a[1])
                   IN  [ok |-> c.ok, val |-> c.val, rest |-> Tail(a), err |-> c.err]
              ELSE [ok |-> FALSE, val |-> None, rest |-> a, err |-> MissingValueErr(spec)]
         ELSE IF spec.nargs.kind = "?"
         THEN IF a # <<>>
              THEN LET c == Checked(spec, a[1])
                   IN  [ok |-> c.ok, val |-> c.val, rest |-> Tail(a), err |-> c.err]
              ELSE [ok |-> TRUE, val |-> spec.default, rest |-> a, err |-> NoErr]
         ELSE IF spec.nargs.kind = "+" /\ a = <<>>
         THEN [ok |-> FALSE, val |-> None, rest |-> a, err |-> MissingValueErr(spec)]
         ELSE LET n0 == IF spec.nargs.kind \in {"*", "+"} THEN -1 ELSE spec.nargs.n
                  r  == Collect(spec, a, n0, <<>>, TRUE)
              IN  IF ~r.ok
                  THEN [ok |-> FALSE, val |-> None, rest |-> r.rest, err |-> r.err]
                  ELSE IF r.n > 0
                  THEN [ok |-> FALSE, val |-> None, rest |-> r.rest, err |-> MissingValueErr(spec)]
                  ELSE [ok |-> TRUE, val |-> ListV(r.ret), rest |-> r.rest, err |-> NoErr]
    ELSE \* store_const (the second "append" branch of line 80 is unreachable)
         [ok |-> TRUE, val |-> spec.const, rest |-> a, err |-> NoErr]

----------------------------------------------------------------------------
(* Registration *)

(* a scan without the break of line 94: the last `--` spelling wins *)
RECURSIVE FirstLongFrom_NoBreak(_, _)
FirstLongFrom_NoBreak(opt_names, i) ==
    IF i > Len(opt_names) THEN opt_names[1]
    ELSE LET later == FirstLongFrom_NoBreak(opt_names, i + 1)
         IN  IF StartsWith(later, <<"-", "-">>) THEN later
             ELSE IF StartsWith(opt_names[i], <<"-", "-">>) THEN opt_names[i]
             ELSE opt_names[1]

(* _dest_from_optnames(opt_names), lines 89-95 *)
RECURSIVE FirstLongFrom(_, _)
FirstLongFrom(opt_names, i) ==
    IF i > Len(opt_names) THEN opt_names[1]
    ELSE IF StartsWith(opt_names[i], <<"-", "-">>) THEN opt_names[i]
         ELSE FirstLongFrom(opt_names, i + 1)

DestFromOptnames(opt_names) ==
    Replace(LStrip(FirstLongFrom(opt_names, 1), "-"), "-", "_")

(* kwargs of add_argument; Absent marks a key that is not passed *)
NoKw == [action |-> "store", dest |-> Absent, type |-> "str",
         nargs |-> [kind |-> "None", n |-> 0], const |-> Absent,
         default |-> Absent, required |-> FALSE, choices |-> <<>>]

Get(v, dflt) == IF v = Absent THEN dflt ELSE v

Arg(names, dest, arg_type, action, nargs, const, default, required, choices) ==
    [names |-> names, dest |-> dest, arg_type |-> arg_type, action |-> action,
     nargs |-> nargs, const |-> const, default |-> default,
     required |-> required, choices |-> choices]

(* ArgumentParser.__init__, lines 99-104 *)
EmptyParser == [opt |-> <<>>, pos |-> <<>>]

(* ArgumentParser.add_argument, lines 106-138 *)
AddArgument(p, names, kw) ==
    LET action  == IF kw.action \in {"store_true", "store_false"}
                   THEN "store_const" ELSE kw.action
        const   == IF kw.action = "store_true" THEN BoolV(TRUE)
                   ELSE IF kw.action = "store_false" THEN BoolV(FALSE)
                   ELSE Get(kw.const, None)
        default == IF kw.action = "store_true" THEN Get(kw.default, BoolV(FALSE))
                   ELSE IF kw.action = "store_false" THEN Get(kw.default, BoolV(TRUE))
                   ELSE Get(kw.default, None)
        named   == names # <<>> /\ StartsWith(names[1], <<"-">>)
        kwdest  == Get(kw.dest, None)
        dest    == IF kwdest # None THEN kwdest.v
                   ELSE IF named THEN DestFromOptnames(names) ELSE names[1]
        nms     == IF names = <<>> THEN <<dest>> ELSE names
        a       == Arg(nms, dest, kw.type, action, kw.nargs, const, default,
                       kw.required, kw.choices)
    IN  IF named THEN [p EXCEPT !.opt = Append(@, a)]
        ELSE [p EXCEPT !.pos = Append(@, a)]

----------------------------------------------------------------------------
(* The parsers under study: each is the state of an ArgumentParser after   *)
(* its add_argument calls.                                                 *)

Nargs(k) == [kind |-> k, n |-> 0]
Count(n) == [kind |-> "count", n |-> n]
sN == <<"n">>
sXdest == StrV(<<"x">>)

\* --o type=int default=0 ; n
P1 == AddArgument(AddArgument(EmptyParser,
        <<tO>>, [NoKw EXCEPT !.type = "int", !.default = IntV(0)]),
        <<sN>>, NoKw)
\* --o ; n
P2 == AddArgument(AddArgument(EmptyParser, <<tO>>, NoKw), <<sN>>, NoKw)
\* --o store_true ; --x/--o store_false dest=x ; n
P3 == AddArgument(AddArgument(AddArgument(EmptyParser,
        <<tO>>, [NoKw EXCEPT !.action = "store_true"]),
        <<tX, tO>>, [NoKw EXCEPT !.action = "store_false", !.dest = sXdest]),
        <<sN>>, NoKw)
\* --o store_const const=3 ; n nargs=* default="3"
P4 == AddArgument(AddArgument(EmptyParser,
        <<tO>>, [NoKw EXCEPT !.action = "store_const", !.const = IntV(3)]),
        <<sN>>, [NoKw EXCEPT !.nargs = Nargs("*"), !.default = StrV(t3)])
\* --o append default=[]
P5 == AddArgument(EmptyParser,
        <<tO>>, [NoKw EXCEPT !.action = "append", !.default = ListV(<<>>)])
\* --o append ; --x/--o dest=x ; n nargs=? default="a"
P6 == AddArgument(AddArgument(AddArgument(EmptyParser,
        <<tO>>, [NoKw EXCEPT !.action = "append"]),
        <<tX, tO>>, [NoKw EXCEPT !.dest = sXdest]),
        <<sN>>, [NoKw EXCEPT !.nargs = Nargs("?"), !.default = StrV(tA)])
\* --o nargs=? type=int default=3 ; n nargs=?
P7 == AddArgument(AddArgument(EmptyParser,
        <<tO>>, [NoKw EXCEPT !.nargs = Nargs("?"), !.type = "int", !.default = IntV(3)]),
        <<sN>>, [NoKw EXCEPT !.nargs = Nargs("?")])
\* --o nargs=* ; n nargs=* default="a"
P8 == AddArgument(AddArgument(EmptyParser,
        <<tO>>, [NoKw EXCEPT !.nargs = Nargs("*")]),
        <<sN>>, [NoKw EXCEPT !.nargs = Nargs("*"), !.default = StrV(tA)])
\* --o nargs=+ required ; n nargs=+ type=int
P9 == AddArgument(AddArgument(EmptyParser,
        <<tO>>, [NoKw EXCEPT !.nargs = Nargs("+"), !.required = TRUE]),
        <<sN>>, [NoKw EXCEPT !.nargs = Nargs("+"), !.type = "int"])
\* --o nargs=2 required ; n nargs=?
P10 == AddArgument(AddArgument(EmptyParser,
        <<tO>>, [NoKw EXCEPT !.nargs = Count(2), !.required = TRUE]),
        <<sN>>, [NoKw EXCEPT !.nargs = Nargs("?")])
\* --o nargs=? required ; --x store_const required
P11 == AddArgument(AddArgument(EmptyParser,
        <<tO>>, [NoKw EXCEPT !.nargs = Nargs("?"), !.required = TRUE]),
        <<tX>>, [NoKw EXCEPT !.action = "store_const", !.required = TRUE])
\* --o ; --x/--o dest=x choices=["a"]
P12 == AddArgument(AddArgument(EmptyParser,
        <<tO>>, NoKw),
        <<tX, tO>>, [NoKw EXCEPT !.dest = sXdest, !.choices = <<StrV(tA)>>])

\* --o nargs=1 ; n nargs=1
P13 == AddArgument(AddArgument(EmptyParser,
        <<tO>>, [NoKw EXCEPT !.nargs = Count(1)]),
        <<sN>>, [NoKw EXCEPT !.nargs = Count(1)])

Parsers == {EmptyParser, P1, P2, P3, P4, P5, P6, P7, P8, P9, P10, P11, P12, P13}

----------------------------------------------------------------------------
(* Parsing.  The locals of one _parse_args call are gathered in a record   *)
(* s = [opt, args, dest, vals, unknown, parsed_pos, pc, err, values]; each *)
(* step of the main loop is an operator on s, used by the action of the    *)
(* same name and by Run, which plays a whole call.                         *)

(* _parse_args_impl, lines 192-198, and the set-up of _parse_args,         *)
(* lines 206-219, on the specs o and the caller's tokens T                 *)
EnterState(o, T) ==
    [opt |-> o,
     args |-> T,
     dest |-> [i \in 1..Len(o) |-> o[i].dest],
     vals |-> [i \in 1..Len(o) |-> o[i].default],
     unknown |-> <<>>,
     parsed_pos |-> FALSE,
     pc |-> "loop",
     err |-> NoErr,
     values |-> <<>>]

(* the except clause of _parse_args_impl, lines 199-202: usage, message,   *)
(* sys.exit(2); an AttributeError is not caught                            *)
Raise(s, e) ==
    [s EXCEPT !.pc = IF e.kind = "AttributeError" THEN "crash" ELSE "exit2",
              !.err = e,
              !.values = <<>>]

(* line 221 *)
IsFrontOption(a) == a # <<>> /\ IsOptionToken(a[1])

HelpSpellings == {tH, tHelp}

(* a help request that first insists on the required options *)
HelpStep_ChecksRequired(s) ==
    IF \E i \in 1..Len(s.opt) : s.opt[i].required = TRUE /\ s.vals[i] = None
    THEN [s EXCEPT !.args = Tail(s.args), !.pc = "exit2",
                   !.err = Error("MissingRequired", <<>>)]
    ELSE [s EXCEPT !.args = Tail(s.args), !.pc = "exit0"]

(* lines 223-226: usage(True); sys.exit(0) *)
HelpStep(s) == [s EXCEPT !.args = Tail(s.args), !.pc = "exit0"]

(* the for loop of lines 228-238 from spec i on; st carries args,          *)
(* arg_vals, the specs (an append mutates the list held as default), found *)
RECURSIVE ScanOpts(_, _, _)
ScanOpts(a, i, st) ==
    IF i > Len(st.opt) THEN st
    ELSE IF a \notin Range(st.opt[i].names) THEN ScanOpts(a, i + 1, st)
    ELSE LET o == st.opt[i]
             r == ArgParse(o, st.args)
         IN  IF o.action = "append"
             THEN LET cur == IF st.vals[i] = None THEN ListV(<<>>) ELSE st.vals[i]
                  IN  IF ~r.ok
                      THEN [st EXCEPT !.ok = FALSE, !.err = r.err, !.args = r.rest]
                      ELSE IF cur.t # "list"
                      THEN [st EXCEPT !.ok = FALSE, !.args = r.rest,
                                      !.err = Error("AttributeError", o.dest)]
                      ELSE LET new == ListV(Append(cur.v, r.val))
                           IN  ScanOpts(a, i + 1,
                                 [st EXCEPT !.args = r.rest,
                                            !.vals[i] = new,
                                            !.opt[i].default =
                                                IF o.default.t = "list" THEN new ELSE @,
                                            !.found = TRUE])
             ELSE IF ~r.ok
                  THEN [st EXCEPT !.ok = FALSE, !.err = r.err, !.args = r.rest]
                  ELSE [st EXCEPT !.args = r.rest, !.vals[i] = r.val, !.found = TRUE]

Matching(o, a) == {i \in 1..Len(o) : a \in Range(o[i].names)}

(* lines 223, 227-238: the front token is a declared spelling *)
DispatchStep(s) ==
    LET st == ScanOpts(s.args[1], 1,
                [args |-> Tail(s.args), vals |-> s.vals, opt |-> s.opt,
                 found |-> FALSE, ok |-> TRUE, err |-> NoErr])
    IN  IF st.ok
        THEN [s EXCEPT !.args = st.args, !.vals = st.vals, !.opt = st.opt]
        ELSE Raise([s EXCEPT !.args = st.args], st.err)

(* a consume_unknown without the startswith test: it takes every token *)
SweepLen_Greedy(a) == Len(a)

(* consume_unknown, lines 214-216: the tokens moved and the tokens left *)
RECURSIVE SweepLen(_)
SweepLen(a) ==
    IF a # <<>> /\ ~StartsWith(a[1], <<"-">>) THEN 1 + SweepLen(Tail(a)) ELSE 0

Swept(a) == SubSeq(a, 1, SweepLen(a))
Unswept(a) == SubSeq(a, SweepLen(a) + 1, Len(a))

(* an unknown option recorded but left at the front of args *)
UnknownStep_NoPop(s, ru) ==
    IF ru
    THEN [s EXCEPT !.unknown = Append(s.unknown, s.args[1])]
    ELSE Raise([s EXCEPT !.args = Tail(s.args)], Error("UnknownOption", s.args[1]))

(* lines 223, 227-229, 239-244: the front token matches no spec *)
UnknownStep(s, ru) ==
    IF ru
    THEN [s EXCEPT !.unknown = Append(s.unknown, s.args[1]) \o Swept(Tail(s.args)),
                   !.args = Unswept(Tail(s.args))]
    ELSE Raise([s EXCEPT !.args = Tail(s.args)], Error("UnknownOption", s.args[1]))

(* the for loop of lines 253-255 from positional i on *)
RECURSIVE ScanPos(_, _, _)
ScanPos(ps, i, st) ==
    IF i > Len(ps) THEN st
    ELSE LET r == ArgParse(ps[i], st.args)
         IN  IF ~r.ok
             THEN [st EXCEPT !.ok = FALSE, !.err = r.err, !.args = r.rest]
             ELSE ScanPos(ps, i + 1,
                    [st EXCEPT !.args = r.rest,
                               !.dest = Append(@, ps[i].dest),
                               !.vals = Append(@, r.val)])

(* a positional phase whose sweep records the tokens and leaves them in args *)
PositionalStep_SweepNoPop(s, ps, ru) ==
    LET st == ScanPos(ps, 1, [args |-> s.args, dest |-> s.dest, vals |-> s.vals,
                              ok |-> TRUE, err |-> NoErr])
    IN  IF st.ok
        THEN [s EXCEPT !.dest = st.dest,
                       !.vals = st.vals,
                       !.parsed_pos = TRUE,
                       !.unknown = IF ru THEN @ \o Swept(st.args) ELSE @,
                       !.args = st.args]
        ELSE Raise([s EXCEPT !.args = st.args], st.err)

(* lines 245-247, 253-258: the positional phase over the positionals ps *)
PositionalStep(s, ps, ru) ==
    LET st == ScanPos(ps, 1, [args |-> s.args, dest |-> s.dest, vals |-> s.vals,
                              ok |-> TRUE, err |-> NoErr])
    IN  IF st.ok
        THEN [s EXCEPT !.dest = st.dest,
                       !.vals = st.vals,
                       !.parsed_pos = TRUE,
                       !.unknown = IF ru THEN @ \o Swept(st.args) ELSE @,
                       !.args = IF ru THEN Unswept(st.args) ELSE st.args]
        ELSE Raise([s EXCEPT !.args = st.args], st.err)

(* a tolerant branch that sets aside the front token only and goes on *)
ExtraStep_Continue(s, ru) ==
    IF ru
    THEN [s EXCEPT !.unknown = Append(@, s.args[1]), !.args = Tail(s.args)]
    ELSE Raise(s, Error("ExtraArguments", s.args))

(* lines 245-252: a non-option front token after the positional phase *)
ExtraStep(s, ru) ==
    IF ru
    THEN [s EXCEPT !.unknown = @ \o s.args, !.pc = "check"]
    ELSE Raise(s, Error("ExtraArguments", s.args))

(* line 261 *)
RequiredButNotUsed(s) ==
    SelectSeq([i \in 1..Len(s.opt) |-> i],
              LAMBDA i : s.opt[i].required = TRUE /\ s.vals[i] = None)

(* lines 260-266: required check and the record returned *)
FinishStep(s) ==
    LET r == RequiredButNotUsed(s)
    IN  IF r # <<>>
        THEN Raise(s, Error("MissingRequired", [k \in 1..Len(r) |-> s.opt[r[k]].dest]))
        ELSE [s EXCEPT !.values = [k \in 1..Len(s.dest) |-> <<s.dest[k], s.vals[k]>>],
                       !.pc = "returned"]

(* a loop condition that looks at the remaining tokens only *)
LoopDone_NoFlag(s) == s.pc = "check" \/ (s.pc = "loop" /\ s.args = <<>>)

(* the loop condition of line 220 is false, or the loop was left by break *)
LoopDone(s) == s.pc = "check" \/ (s.pc = "loop" /\ s.args = <<>> /\ s.parsed_pos)

(* which step of lines 220-266 is taken from s *)
StepKind(s) ==
    IF LoopDone(s) THEN "Finish"
    ELSE IF s.pc # "loop" THEN "none"
    ELSE IF IsFrontOption(s.args)
         THEN IF s.args[1] \in HelpSpellings THEN "Help"
              ELSE IF Matching(s.opt, s.args[1]) # {} THEN "Dispatch" ELSE "Unknown"
         ELSE IF s.parsed_pos THEN "Extra" ELSE "Positional"

LoopStep(s, ps, ru) ==
    CASE StepKind(s) = "Finish"     -> FinishStep(s)
      [] StepKind(s) = "Help"       -> HelpStep(s)
      [] StepKind(s) = "Dispatch"   -> DispatchStep(s)
      [] StepKind(s) = "Unknown"    -> UnknownStep(s, ru)
      [] StepKind(s) = "Extra"      -> ExtraStep(s, ru)
      [] StepKind(s) = "Positional" -> PositionalStep(s, ps, ru)
      [] OTHER                      -> s

(* _parse_args(args, return_unknown), lines 204-266, played to its end *)
RECURSIVE RunLoop(_, _, _)
RunLoop(s, ps, ru) ==
    IF StepKind(s) = "none" THEN s ELSE RunLoop(LoopStep(s, ps, ru), ps, ru)

(* parse_args(T) / parse_known_args(T) on the specs o, ps *)
Run(o, ps, T, ru) == RunLoop(EnterState(o, T), ps, ru)

----------------------------------------------------------------------------
(* The state machine *)

Init ==
    /\ \E p \in Parsers : opt = p.opt /\ pos = p.pos
    /\ argv = <<>>
    /\ args = <<>>
    /\ return_unknown = FALSE
    /\ arg_dest = <<>>
    /\ arg_vals = <<>>
    /\ unknown = <<>>
    /\ parsed_pos = FALSE
    /\ pc = "idle"
    /\ err = NoErr
    /\ values = <<>>

Cur ==
    [opt |-> opt, args |-> args, dest |-> arg_dest, vals |-> arg_vals,
     unknown |-> unknown, parsed_pos |-> parsed_pos, pc |-> pc, err |-> err,
     values |-> values]

Become(s) ==
    /\ opt' = s.opt
    /\ args' = s.args
    /\ arg_dest' = s.dest
    /\ arg_vals' = s.vals
    /\ unknown' = s.unknown
    /\ parsed_pos' = s.parsed_pos
    /\ pc' = s.pc
    /\ err' = s.err
    /\ values' = s.values

(* a parse that pops from the list object the caller passed *)
WorkingListIsCopy_Aliased == FALSE

(* lines 193-196: args = sys.argv[1:] or args = args[:], so the list the   *)
(* loop pops from is never the object the caller holds                     *)
WorkingListIsCopy == TRUE

(* the caller's list after a step that leaves the working list as work *)
CallerTokens(before, work) == IF WorkingListIsCopy THEN before ELSE work

CanCall ==
    /\ pc = "idle"
    /\ \A i \in 1..Len(opt) :
           opt[i].default.t = "list" => Len(opt[i].default.v) <= MaxGrow

Enter(T, ru) ==
    /\ argv' = T
    /\ return_unknown' = ru
    /\ Become(EnterState(opt, T))
    /\ UNCHANGED pos

(* parse_args(args), lines 186-187 *)
ParseArgs ==
    /\ CanCall
    /\ \E T \in SeqsUpTo(Tokens, MaxArgs) : Enter(T, FALSE)

(* parse_known_args(args), lines 189-190 *)
ParseKnownArgs ==
    /\ CanCall
    /\ \E T \in SeqsUpTo(Tokens, MaxArgs) : Enter(T, TRUE)

HelpRequested ==
    /\ StepKind(Cur) = "Help"
    /\ Become(HelpStep(Cur))
    /\ argv' = CallerTokens(argv, args')
    /\ UNCHANGED <<pos, return_unknown>>

DispatchOption ==
    /\ StepKind(Cur) = "Dispatch"
    /\ Become(DispatchStep(Cur))
    /\ argv' = CallerTokens(argv, args')
    /\ UNCHANGED <<pos, return_unknown>>

UnknownOption ==
    /\ StepKind(Cur) = "Unknown"
    /\ Become(UnknownStep(Cur, return_unknown))
    /\ argv' = CallerTokens(argv, args')
    /\ UNCHANGED <<pos, return_unknown>>

PositionalPhase ==
    /\ StepKind(Cur) = "Positional"
    /\ Become(PositionalStep(Cur, pos, return_unknown))
    /\ argv' = CallerTokens(argv, args')
    /\ UNCHANGED <<pos, return_unknown>>

ExtraArgs ==
    /\ StepKind(Cur) = "Extra"
    /\ Become(ExtraStep(Cur, return_unknown))
    /\ argv' = CallerTokens(argv, args')
    /\ UNCHANGED <<pos, return_unknown>>

Finish ==
    /\ StepKind(Cur) = "Finish"
    /\ Become(FinishStep(Cur))
    /\ argv' = CallerTokens(argv, args')
    /\ UNCHANGED <<pos, return_unknown>>

(* the caller has taken the result of line 198; the locals of _parse_args  *)
(* are gone and the parser can be used for the next call                   *)
Returned ==
    /\ pc = "returned"
    /\ pc' = "idle"
    /\ argv' = <<>>
    /\ args' = <<>>
    /\ return_unknown' = FALSE
    /\ arg_dest' = <<>>
    /\ arg_vals' = <<>>
    /\ unknown' = <<>>
    /\ parsed_pos' = FALSE
    /\ values' = <<>>
    /\ UNCHANGED <<opt, pos, err>>

Next ==
    \/ ParseArgs
    \/ ParseKnownArgs
    \/ HelpRequested
    \/ DispatchOption
    \/ UnknownOption
    \/ PositionalPhase
    \/ ExtraArgs
    \/ Finish
    \/ Returned

Spec == Init /\ [][Next]_vars

----------------------------------------------------------------------------
(* Registration as the only operation: add_argument calls on a fresh       *)
(* parser, with spellings and keyword arguments drawn from small sets.     *)

MaxSpecs == 1       \* add_argument calls per parser under SpecReg
MaxNames == 3       \* spellings per add_argument call under SpecReg

sF    == <<"-", "f">>
sFo   == <<"-", "-", "f", "o">>
sFoB  == <<"-", "-", "f", "o", "-", "b">>
sB    == <<"b">>
sDdest == StrV(<<"d">>)

RegSpellings == {sF, sFo, sFoB, sB}

RegKws ==
    {[NoKw EXCEPT !.action = a, !.dest = d] :
        a \in {"store", "store_true", "store_false"}, d \in {Absent, sDdest}}

InitReg ==
    /\ opt = EmptyParser.opt
    /\ pos = EmptyParser.pos
    /\ argv = <<>>
    /\ args = <<>>
    /\ return_unknown = FALSE
    /\ arg_dest = <<>>
    /\ arg_vals = <<>>
    /\ unknown = <<>>
    /\ parsed_pos = FALSE
    /\ pc = "idle"
    /\ err = NoErr
    /\ values = <<>>

AddArgumentCall ==
    /\ Len(opt) + Len(pos) < MaxSpecs
    /\ \E names \in SeqsUpTo(RegSpellings, MaxNames) \ {<<>>}, kw \in RegKws :
          LET p == AddArgument([opt |-> opt, pos |-> pos], names, kw)
          IN  opt' = p.opt /\ pos' = p.pos
    /\ UNCHANGED <<argv, args, return_unknown, arg_dest, arg_vals, unknown,
                   parsed_pos, pc, err, values>>

NextReg == AddArgumentCall

SpecReg == InitReg /\ [][NextReg]_vars

----------------------------------------------------------------------------
(* Properties *)

Final == pc \in {"returned", "exit0", "exit2", "crash"}
Bare(tok) == ~StartsWith(tok, <<"-">>)
Min(S) == CHOOSE x \in S : \A y \in S : x <= y
Max(S) == CHOOSE x \in S : \A y \in S : x >= y

(* the parser has one named store spec of arity none and one arity-none    *)
(* positional, everything else left at its default                         *)
C1Parser ==
    /\ Len(opt) = 1 /\ Len(pos) = 1
    /\ opt[1].action = "store" /\ opt[1].nargs.kind = "None"
    /\ ~opt[1].required /\ opt[1].choices = <<>>
    /\ pos[1].action = "store" /\ pos[1].nargs.kind = "None"
    /\ pos[1].arg_type = "str" /\ pos[1].choices = <<>>

C1Spell(tok) == tok \in Range(opt[1].names) \ HelpSpellings
C1Before == Len(argv) = 3 /\ C1Spell(argv[1]) /\ Bare(argv[3])
C1After  == Len(argv) = 3 /\ Bare(argv[1]) /\ C1Spell(argv[2])
C1Alone  == Len(argv) = 1 /\ Bare(argv[1])
C1Record(v, p) == <<<<opt[1].dest, v>>, <<pos[1].dest, StrV(p)>>>>

C1Pair(V, P) ==
    LET c == Convert(opt[1].arg_type, V)
    IN  IF c.ok
        THEN pc = "returned" /\ values = C1Record(c.val, P)
        ELSE pc = "exit2" /\ err.kind = "InvalidValue" /\ values = <<>>

(* C1: with one named store spec of arity none (converter c, default d)    *)
(* and one arity-none positional, a strict parse of [opt, V, P] or         *)
(* [P, opt, V] returns {dest: c(V), positional: P}, of [P] alone returns   *)
(* {dest: d, positional: P}, and when c fails on V the parse fails with    *)
(* InvalidValue and returns no record.                                     *)
C1_StoreSingleValue ==
    (C1Parser /\ ~return_unknown /\ Final) =>
        /\ C1Before => C1Pair(argv[2], argv[3])
        /\ C1After => C1Pair(argv[3], argv[1])
        /\ C1Alone => pc = "returned" /\ values = C1Record(opt[1].default, argv[1])

C1_Witness ==
    /\ C1Parser /\ ~return_unknown /\ pc = "returned"
    /\ C1After /\ argv[3] = t3 /\ opt[1].arg_type = "int"
    /\ values = C1Record(IntV(3), argv[1])

(* the main loop is about to dispatch a spelling whose earliest-declared    *)
(* spec is a store_const spec                                              *)
FirstMatch == Min(Matching(opt, args[1]))
C2Case == StepKind(Cur) = "Dispatch" /\ opt[FirstMatch].action = "store_const"

C2Frame ==
    C2Case =>
        /\ args' = Tail(args)
        /\ arg_vals' = [arg_vals EXCEPT ![FirstMatch] = opt[FirstMatch].const]
        /\ StepKind(Cur)' = StepKind([Cur EXCEPT !.args = Tail(args)])
        /\ UNCHANGED <<opt, pos, argv, arg_dest, unknown, parsed_pos, pc, err, values>>

(* store_true / store_false as registered in P3, followed by a bare token *)
C2Sugar ==
    (opt = P3.opt /\ pos = P3.pos /\ Final /\ Len(argv) = 2 /\ argv[2] = tA) =>
        /\ argv[1] \in {tO, tX} => pc = "returned"
        /\ argv[1] = tO =>
              values = <<<<opt[1].dest, BoolV(TRUE)>>, <<opt[2].dest, BoolV(TRUE)>>,
                         <<pos[1].dest, StrV(tA)>>>>
        /\ argv[1] = tX =>
              values = <<<<opt[1].dest, BoolV(FALSE)>>, <<opt[2].dest, BoolV(FALSE)>>,
                         <<pos[1].dest, StrV(tA)>>>>

(* C2: dispatching a store_const spec (store_true / store_false included)  *)
(* removes only the flag from the remaining tokens and binds the dest to   *)
(* the constant; the token after the flag is the next front token and is   *)
(* classified as if the flag had not been there, so a following bare token *)
(* goes to the positional.                                                 *)
C2_StoreConstConsumesNothing == [][C2Frame]_vars /\ []C2Sugar

C2_Witness ==
    /\ opt = P3.opt /\ pos = P3.pos /\ pc = "returned"
    /\ argv = <<tO, tA>>
    /\ values[1] = <<opt[1].dest, BoolV(TRUE)>>
    /\ values[3] = <<pos[1].dest, StrV(tA)>>

(* C3: a parse call never changes any field of any registered spec,        *)
(* the object held as its default included (append specs with a list       *)
(* default in particular).                                                 *)
C3_SpecsNeverChange == [][opt' = opt /\ pos' = pos]_vars

(* a token that looks like a named option, is not a help spelling and      *)
(* matches no declared spelling                                            *)
C4Unknown(U) ==
    IsOptionToken(U) /\ U \notin HelpSpellings /\ Matching(opt, U) = {}

(* C4: if parse_args(T) returns the record R and U is an unknown option    *)
(* token, parse_known_args(T + [U]) returns (R, [U]), whatever the arity   *)
(* of the last spec dispatched in T.                                       *)
C4_TolerantRoundTrip ==
    (return_unknown /\ Final /\ argv # <<>> /\ C4Unknown(argv[Len(argv)])) =>
        LET T == SubSeq(argv, 1, Len(argv) - 1)
            r == Run(opt, pos, T, FALSE)
        IN  r.pc = "returned" =>
                /\ pc = "returned"
                /\ values = r.values
                /\ unknown = <<argv[Len(argv)]>>

(* spec i is certainly supplied: the command line starts with a spelling   *)
(* of which i is the earliest-declared owner                               *)
C5Supplied(i) ==
    /\ argv # <<>>
    /\ argv[1] \notin HelpSpellings
    /\ Matching(opt, argv[1]) # {}
    /\ i = Min(Matching(opt, argv[1]))

(* spec i is certainly not supplied: no token is one of its spellings *)
C5Absent(i) == \A k \in 1..Len(argv) : argv[k] \notin Range(opt[i].names)

C5Required(i) == opt[i].required /\ opt[i].default = None

(* C5: a parse that meets no earlier error fails with MissingRequired      *)
(* exactly when some required named spec (no default) was never supplied,  *)
(* and the error names exactly the dests of those specs; a required option *)
(* whose spelling was supplied never causes MissingRequired.               *)
C5_MissingRequiredIff ==
    /\ (pc = "exit2" /\ err.kind = "MissingRequired") =>
           \A i \in 1..Len(opt) :
               /\ (C5Required(i) /\ C5Absent(i)) => opt[i].dest \in Range(err.detail)
               /\ C5Supplied(i) => opt[i].dest \notin Range(err.detail)
               /\ ~C5Required(i) => opt[i].dest \notin Range(err.detail)
    /\ pc = "returned" =>
           \A i \in 1..Len(opt) : C5Required(i) => ~C5Absent(i)

(* C6: when the front token is a spelling of several named specs, only the *)
(* earliest-declared one is dispatched: it alone consumes value tokens,    *)
(* and every other spec keeps its current value, whatever the action of    *)
(* the first (store, store_const, append).                                 *)
C6_FirstMatchWins ==
    [][StepKind(Cur) = "Dispatch" =>
          /\ \A j \in (1..Len(opt)) \ {FirstMatch} : arg_vals'[j] = arg_vals[j]
          /\ pc' = "loop" => args' = ArgParse(opt[FirstMatch], Tail(args)).rest]_vars

(* no named spec is required and every positional accepts zero tokens *)
C7Parser ==
    /\ \A i \in 1..Len(opt) : ~opt[i].required
    /\ \A j \in 1..Len(pos) : pos[j].action = "store" /\ pos[j].nargs.kind \in {"?", "*"}

(* C7: parse_args([]) on a parser with no required named spec and only     *)
(* positionals that accept zero tokens returns every declared dest, named  *)
(* and positional, bound to the spec's declared default.                   *)
C7_DefaultsOnEmpty ==
    (C7Parser /\ ~return_unknown /\ Final /\ argv = <<>>) =>
        /\ pc = "returned"
        /\ values = [k \in 1..Len(opt) |-> <<opt[k].dest, opt[k].default>>]
                    \o [k \in 1..Len(pos) |-> <<pos[k].dest, pos[k].default>>]

(* a store spec of fixed-count, zero-or-more or one-or-more arity *)
VarArity(spec) ==
    spec.action = "store" /\ spec.nargs.kind \in {"count", "*", "+"}

OptLike(a) == {k \in 1..Len(a) : LooksLikeOpt(a[k])}

(* an extraction of spec from the tokens a meets `--` while its stop rule  *)
(* is active: the first option-looking token of a is `--`, and a fixed     *)
(* count is not yet filled by the tokens before it                         *)
C8Meets(spec, a) ==
    /\ VarArity(spec)
    /\ OptLike(a) # {}
    /\ a[Min(OptLike(a))] = tDD
    /\ spec.nargs.kind = "count" => Min(OptLike(a)) - 1 < spec.nargs.n

(* the tokens of a with that first `--` taken out *)
C8Pool(a) ==
    SubSeq(a, 1, Min(OptLike(a)) - 1) \o SubSeq(a, Min(OptLike(a)) + 1, Len(a))

C8Take(spec, a) ==
    IF spec.nargs.kind = "count" /\ spec.nargs.n < Len(C8Pool(a))
    THEN spec.nargs.n ELSE Len(C8Pool(a))

C8Succeeds(spec, a) ==
    /\ spec.nargs.kind = "count" => Len(C8Pool(a)) >= spec.nargs.n
    /\ \A j \in 1..C8Take(spec, a) : Checked(spec, C8Pool(a)[j]).ok

C8Value(spec, a) ==
    ListV([j \in 1..C8Take(spec, a) |-> Checked(spec, C8Pool(a)[j]).val])

C8Rest(spec, a) == SubSeq(C8Pool(a), C8Take(spec, a) + 1, Len(C8Pool(a)))

C8Named ==
    (StepKind(Cur) = "Dispatch" /\ C8Meets(opt[FirstMatch], Tail(args))) =>
        IF C8Succeeds(opt[FirstMatch], Tail(args))
        THEN /\ pc' = "loop"
             /\ arg_vals'[FirstMatch] = C8Value(opt[FirstMatch], Tail(args))
             /\ args' = C8Rest(opt[FirstMatch], Tail(args))
        ELSE pc' = "exit2"

C8Positional ==
    (StepKind(Cur) = "Positional" /\ Len(pos) = 1 /\ C8Meets(pos[1], args)) =>
        IF C8Succeeds(pos[1], args)
        THEN /\ pc' = "loop"
             /\ arg_vals' = Append(arg_vals, C8Value(pos[1], args))
             /\ ~return_unknown => args' = C8Rest(pos[1], args)
        ELSE pc' = "exit2"

(* C8: in a fixed-count, zero-or-more or one-or-more extraction the first  *)
(* `--` met while the stop rule is active is removed and not collected,    *)
(* and from then on every remaining token, option-looking tokens and any   *)
(* further `--` included, is collected as a value up to the count limit.   *)
C8_SeparatorDisablesStop == [][C8Named /\ C8Positional]_vars

C8_Witness ==
    /\ pc = "loop"
    /\ Len(opt) = 1 /\ VarArity(opt[1])
    /\ argv = <<tO, tDD, tU>>
    /\ arg_vals[1] = ListV(<<StrV(tU)>>)

(* a store extraction of the first matching spec, or of the only          *)
(* positional, invoked with no remaining token                             *)
C9Named ==
    (StepKind(Cur) = "Dispatch" /\ Tail(args) = <<>>
        /\ opt[FirstMatch].action = "store") =>
        /\ opt[FirstMatch].nargs.kind = "+" =>
              pc' = "exit2" /\ err'.kind = "MissingValue" /\ values' = <<>>
        /\ opt[FirstMatch].nargs.kind = "*" =>
              /\ pc' = "loop" /\ err' = NoErr
              /\ arg_vals' = [arg_vals EXCEPT ![FirstMatch] = ListV(<<>>)]

C9Positional ==
    (StepKind(Cur) = "Positional" /\ args = <<>> /\ Len(pos) = 1
        /\ pos[1].action = "store") =>
        /\ pos[1].nargs.kind = "+" =>
              pc' = "exit2" /\ err'.kind = "MissingValue" /\ values' = <<>>
        /\ pos[1].nargs.kind = "*" =>
              /\ pc' = "loop" /\ err' = NoErr
              /\ arg_vals' = Append(arg_vals, ListV(<<>>))

(* C9: a one-or-more extraction invoked with no remaining token fails with *)
(* MissingValue; a zero-or-more extraction invoked with no remaining token *)
(* returns an empty sequence and does not fail; for named and positional   *)
(* specs alike.                                                            *)
C9_EmptyPlusFailsStarEmpty == [][C9Named /\ C9Positional]_vars

C9_Witness ==
    /\ pc = "exit2" /\ err.kind = "MissingValue"
    /\ Len(opt) = 1 /\ opt[1].nargs.kind = "+" /\ opt[1].action = "store"
    /\ argv = <<tO>> /\ args = <<>>

(* the dest derived from the spellings: the chosen spelling without its    *)
(* leading dashes and with every other dash turned into an underscore      *)
C10Dashes(sp) == Max({k \in 0..Len(sp) : \A j \in 1..k : sp[j] = "-"})
C10Clean(sp) ==
    [j \in 1..(Len(sp) - C10Dashes(sp)) |->
        IF sp[j + C10Dashes(sp)] = "-" THEN "_" ELSE sp[j + C10Dashes(sp)]]
C10Long(names) == {k \in 1..Len(names) : StartsWith(names[k], <<"-", "-">>)}
C10FirstLong(names) ==
    IF C10Long(names) = {} THEN names[1] ELSE names[Min(C10Long(names))]
C10LastLong(names) ==
    IF C10Long(names) = {} THEN names[1] ELSE names[Max(C10Long(names))]

(* C10 as stated: without an explicit dest, the dest of a named spec is    *)
(* derived from the last spelling that starts with `--` (the first         *)
(* spelling if none does): (-f, --fo, --fo-b) gives fo_b.                  *)
C10_DestFromLastLong ==
    \A i \in 1..Len(opt) :
        opt[i].dest = sDdest.v \/ opt[i].dest = C10Clean(C10LastLong(opt[i].names))

(* C10 amended: without an explicit dest, the dest of a named spec is      *)
(* derived from the first spelling that starts with `--` (the first        *)
(* spelling if none does), leading dashes stripped and the other dashes    *)
(* replaced by underscores: (-f, --fo, --fo-b) gives fo.                   *)
C10_DestFromFirstLong ==
    \A i \in 1..Len(opt) :
        opt[i].dest = sDdest.v \/ opt[i].dest = C10Clean(C10FirstLong(opt[i].names))

C10_Witness ==
    /\ Len(opt) = 1
    /\ opt[1].names = <<sF, sFoB, sFo>>
    /\ opt[1].dest = <<"f", "o", "_", "b">>

(* the specs as they can have been when the current call was entered: an  *)
(* append spec's list default may have been shorter                        *)
C11Longest(o) ==
    Max({0} \cup {Len(o[i].default.v) : i \in {j \in 1..Len(o) : o[j].default.t = "list"}})

C11Earlier(o) ==
    {[i \in 1..Len(o) |->
        IF o[i].default.t = "list" /\ k[i] <= Len(o[i].default.v)
        THEN [o[i] EXCEPT !.default = ListV(SubSeq(o[i].default.v, 1, k[i]))]
        ELSE o[i]] : k \in [1..Len(o) -> 0..C11Longest(o)]}

(* those of them from which the current call ends in the current state *)
C11Starts ==
    {o0 \in C11Earlier(opt) :
        LET r == Run(o0, pos, argv, return_unknown)
        IN  r.pc = pc /\ r.opt = opt /\ r.vals = arg_vals /\ r.unknown = unknown}

C11SharedErrors == {"MissingValue", "InvalidValue", "InvalidChoice", "MissingRequired"}

(* C11: the two modes agree wherever strict mode does not fail with        *)
(* UnknownOption or ExtraArguments: if parse_args(T) returns R then        *)
(* parse_known_args(T) returns (R, []), and if parse_args(T) fails with    *)
(* MissingValue, InvalidValue, InvalidChoice or MissingRequired then       *)
(* parse_known_args(T) fails with the same error.                          *)
C11_ModesAgree ==
    (return_unknown /\ Final) =>
        /\ C11Starts # {}
        /\ \A o0 \in C11Starts :
              LET r == Run(o0, pos, argv, FALSE)
              IN  /\ r.pc = "returned" =>
                        pc = "returned" /\ values = r.values /\ unknown = <<>>
                  /\ (r.pc = "exit2" /\ r.err.kind \in C11SharedErrors) =>
                        pc = "exit2" /\ err = r.err

C11_Witness ==
    /\ return_unknown /\ pc = "returned" /\ unknown = <<>>
    /\ argv = <<tA, tO, t3>>
    /\ values = <<<<opt[1].dest, IntV(3)>>, <<pos[1].dest, StrV(tA)>>>>

ParseErrors ==
    {"UnknownOption", "ExtraArguments", "MissingValue", "InvalidValue",
     "InvalidChoice", "MissingRequired"}

C12Outcomes ==
    /\ pc \in {"idle", "loop", "check", "returned", "exit0", "exit2"}
    /\ err.kind \in ParseErrors \cup {"none"}
    /\ pc = "exit2" <=> err.kind \in ParseErrors
    /\ pc = "returned" => Len(values) = Len(arg_dest)
    /\ pc \in {"exit0", "exit2"} => values = <<>>
    /\ (Final /\ argv # <<>> /\ argv[1] \in HelpSpellings) => pc = "exit0"
    /\ pc = "exit0" => \E k \in 1..Len(argv) : argv[k] \in HelpSpellings

C12HelpAtFront == pc = "loop" /\ args # <<>> /\ args[1] \in HelpSpellings

C13Progress ==
    /\ (pc = "loop" /\ pc' = "loop") =>
          \/ Len(args') < Len(args) /\ (parsed_pos => parsed_pos')
          \/ Len(args') <= Len(args) /\ ~parsed_pos /\ parsed_pos'
    /\ pc = "loop" => pc' \in {"loop", "check", "returned", "exit0", "exit2"}
    /\ pc = "check" => pc' \in {"returned", "exit2"}

(* a variable-arity extraction takes one token for each value it collects  *)
(* and at most one more, the `--` it drops                                 *)
C13Inner ==
    (StepKind(Cur) = "Dispatch" /\ Matching(opt, args[1]) = {FirstMatch}
        /\ VarArity(opt[FirstMatch]) /\ pc' = "loop") =>
        LET d == Len(args) - 1 - Len(args')
            n == Len(arg_vals'[FirstMatch].v)
        IN  \/ d = n
            \/ d = n + 1 /\ tDD \in Range(SubSeq(args, 2, d + 1))

(* a call under way has a next step *)
C13NotStuck ==
    pc \in {"loop", "check"} =>
        StepKind(Cur) \in {"Help", "Dispatch", "Unknown", "Positional", "Extra", "Finish"}

(* C13: every parse call, in either mode, terminates by returning or by    *)
(* process exit: a call under way always has a next step, each iteration   *)
(* of the main loop removes at least one token or moves the                *)
(* positional-phase flag from false to true (or ends the loop), and a      *)
(* variable-arity extraction removes one token per iteration.              *)
C13_Terminates ==
    /\ []C13NotStuck
    /\ [][C13Progress /\ C13Inner]_vars

C13_Witness ==
    /\ pc = "loop" /\ parsed_pos /\ args = argv /\ Len(argv) = 3
    /\ unknown = <<>> /\ arg_dest = <<>>

(* the field names of the record: named specs, then positionals, as declared *)
C14Fields ==
    [k \in 1..(Len(opt) + Len(pos)) |->
        IF k <= Len(opt) THEN opt[k].dest ELSE pos[k - Len(opt)].dest]

C14Once ==
    /\ (pc = "loop" /\ ~parsed_pos /\ parsed_pos') =>
          arg_dest' = arg_dest \o [k \in 1..Len(pos) |-> pos[k].dest]
    /\ (pc = "loop" /\ ~parsed_pos /\ ~parsed_pos' /\ pc' \in {"loop", "check", "returned"}) =>
          arg_dest' = arg_dest
    /\ (pc \in {"loop", "check"} /\ parsed_pos /\ pc' \in {"loop", "check", "returned"}) =>
          parsed_pos' /\ arg_dest' = arg_dest /\ Len(arg_vals') = Len(arg_vals)

(* C14: in every parse that returns a result, in either mode, the          *)
(* positional distribution step has run exactly once (also with no tokens, *)
(* with no positional specs, and when the tolerant loop ends early), so    *)
(* the record has one field per named spec followed by one field per       *)
(* positional spec, in declaration order.                                  *)
C14_PositionalPhaseOnce ==
    /\ [](pc = "returned" =>
            /\ parsed_pos
            /\ [k \in 1..Len(values) |-> values[k][1]] = C14Fields)
    /\ [][C14Once]_vars

C14_Witness ==
    /\ pc = "returned" /\ return_unknown /\ args # <<>>
    /\ argv = <<tA, tD, tO>> /\ unknown = <<tD, tO>>
    /\ Len(opt) = 1 /\ Len(pos) = 1
    /\ values = <<<<opt[1].dest, opt[1].default>>, <<pos[1].dest, StrV(tA)>>>>

(* the main loop, past the positional phase, finds a front token that is   *)
(* not a named-option spelling                                             *)
C15Case == pc = "loop" /\ parsed_pos /\ args # <<>> /\ ~IsOptionToken(args[1])

C15Step ==
    C15Case =>
        IF return_unknown
        THEN /\ pc' = "check"
             /\ unknown' = unknown \o args
             /\ arg_vals' = arg_vals /\ opt' = opt
        ELSE /\ pc' = "exit2"
             /\ err' = Error("ExtraArguments", args)

C15LoopOver ==
    pc = "check" =>
        /\ return_unknown
        /\ pc' \in {"returned", "exit2"}
        /\ unknown' = unknown /\ arg_vals' = arg_vals /\ opt' = opt

(* C15: once the positional phase has been entered, a front token of the   *)
(* main loop that is not a named-option spelling (bare, `-` or `--`) makes *)
(* strict mode fail with ExtraArguments and makes tolerant mode append all *)
(* remaining tokens, in order and unparsed even where they match declared  *)
(* spellings, to the leftover list and end the loop.                       *)
C15_ExtraAfterPositionals == [][C15Step /\ C15LoopOver]_vars

C15_Witness ==
    /\ pc = "check" /\ return_unknown
    /\ argv = <<tA, tD, tO>> /\ unknown = <<tD, tO>>
    /\ Len(opt) = 1 /\ tO \in Range(opt[1].names)
    /\ arg_vals[1] = opt[1].default

(* a fixed-count store spec, N >= 1 *)
C16Fixed(spec) ==
    spec.action = "store" /\ spec.nargs.kind = "count" /\ spec.nargs.n >= 1

(* 1 when the extraction of spec from a drops a `--`, else 0 *)
C16Sep(spec, a) == IF C8Meets(spec, a) THEN 1 ELSE 0

(* the tokens of a the extraction may collect: up to the first             *)
(* option-looking token, or all but the dropped `--`                       *)
C16Avail(spec, a) ==
    IF C8Meets(spec, a) THEN C8Pool(a)
    ELSE IF OptLike(a) = {} THEN a
    ELSE SubSeq(a, 1, Min(OptLike(a)) - 1)

C16Taken(spec, a) ==
    SubSeq(C16Avail(spec, a), 1,
           IF spec.nargs.n < Len(C16Avail(spec, a))
           THEN spec.nargs.n ELSE Len(C16Avail(spec, a)))

C16Convertible(spec, a) ==
    \A j \in 1..Len(C16Taken(spec, a)) : Checked(spec, C16Taken(spec, a)[j]).ok

C16Value(spec, a) ==
    ListV([j \in 1..spec.nargs.n |-> Checked(spec, C16Avail(spec, a)[j]).val])

C16Rest(spec, a) == SubSeq(a, spec.nargs.n + C16Sep(spec, a) + 1, Len(a))

C16Named ==
    (StepKind(Cur) = "Dispatch" /\ Matching(opt, args[1]) = {FirstMatch}
        /\ C16Fixed(opt[FirstMatch])) =>
        LET spec == opt[FirstMatch]
            a    == Tail(args)
        IN  IF Len(C16Avail(spec, a)) >= spec.nargs.n /\ C16Convertible(spec, a)
            THEN /\ pc' = "loop"
                 /\ arg_vals'[FirstMatch] = C16Value(spec, a)
                 /\ Len(arg_vals'[FirstMatch].v) = spec.nargs.n
                 /\ args' = C16Rest(spec, a)
            ELSE /\ pc' = "exit2"
                 /\ C16Convertible(spec, a) => err' = MissingValueErr(spec)

C16Positional ==
    (StepKind(Cur) = "Positional" /\ Len(pos) = 1 /\ C16Fixed(pos[1])) =>
        LET spec == pos[1]
        IN  IF Len(C16Avail(spec, args)) >= spec.nargs.n /\ C16Convertible(spec, args)
            THEN /\ pc' = "loop"
                 /\ arg_vals' = Append(arg_vals, C16Value(spec, args))
                 /\ unknown' \o args' = unknown \o C16Rest(spec, args)
                 /\ ~return_unknown => args' = C16Rest(spec, args)
            ELSE /\ pc' = "exit2"
                 /\ C16Convertible(spec, args) => err' = MissingValueErr(spec)

(* C16: a fixed-count extraction with N >= 1 either returns exactly N      *)
(* converted values, having removed from the front exactly those N tokens  *)
(* plus at most one `--`, or fails with MissingValue when the tokens run   *)
(* out or an option-looking token is met (no `--` seen) before N values    *)
(* are collected; it never returns fewer or more than N values.            *)
C16_FixedCountExact == [][C16Named /\ C16Positional]_vars

C16_Witness ==
    /\ pc = "loop"
    /\ Len(opt) = 1 /\ C16Fixed(opt[1]) /\ opt[1].nargs.n = 2
    /\ argv = <<tO, tDD, tX, tA>> \/ argv = <<tO, tA, t3>>
    /\ args = <<>>
    /\ arg_vals[1] = ListV(<<StrV(argv[Len(argv) - 1]), StrV(argv[Len(argv)])>>)

(* how many tokens at the front of a are bare tokens or the literal `-` *)
RECURSIVE C17Following(_)
C17Following(a) ==
    IF a # <<>> /\ (Bare(a[1]) \/ a[1] = tD) THEN 1 + C17Following(Tail(a)) ELSE 0

(* C17: in tolerant mode, when an option-looking front token matches no    *)
(* declared spec, that token and then every immediately following bare     *)
(* token or literal `-` are moved, in order, to the leftover list before   *)
(* the loop resumes, so none of them is assigned to a positional.          *)
C17_UnknownSweepsNonOptions ==
    [][(StepKind(Cur) = "Unknown" /\ return_unknown) =>
          LET m == C17Following(Tail(args))
          IN  /\ pc' = "loop"
              /\ unknown' = unknown \o SubSeq(args, 1, m + 1)
              /\ args' = SubSeq(args, m + 2, Len(args))
              /\ arg_vals' = arg_vals /\ arg_dest' = arg_dest]_vars

RECURSIVE IsSubseq(_, _)
IsSubseq(u, s) ==
    \/ u = <<>>
    \/ /\ s # <<>>
       /\ IF u[1] = s[1] THEN IsSubseq(Tail(u), Tail(s)) ELSE IsSubseq(u, Tail(s))

IsSuffix(a, s) == Len(a) <= Len(s) /\ a = SubSeq(s, Len(s) - Len(a) + 1, Len(s))

(* the input tokens no longer in args *)
C19Gone == SubSeq(argv, 1, Len(argv) - Len(args))

(* the tokens taken so far are the front of the input, and the leftover    *)
(* list is drawn from them in order; after the break of line 251 it also   *)
(* holds the tokens that were never taken                                  *)
C19Accounted ==
    (return_unknown /\ pc \in {"loop", "check", "returned"}) =>
        /\ IsSuffix(args, argv)
        /\ IF pc = "loop" \/ args = <<>>
           THEN IsSubseq(unknown, C19Gone)
           ELSE /\ IsSuffix(args, unknown)
                /\ IsSubseq(SubSeq(unknown, 1, Len(unknown) - Len(args)), C19Gone)
        /\ IsSubseq(unknown, argv)

(* what a dispatched spec takes: its spelling, its values, a dropped `--` *)
C19Dispatch ==
    (StepKind(Cur) = "Dispatch" /\ pc' = "loop" /\ Matching(opt, args[1]) = {FirstMatch}) =>
        LET spec == opt[FirstMatch]
            d    == Len(args) - Len(args')
        IN  /\ unknown' = unknown
            /\ IsSuffix(args', args)
            /\ IF spec.action \notin {"store", "append"} THEN d = 1
               ELSE IF spec.nargs.kind = "None" THEN d = 2
               ELSE IF spec.nargs.kind = "?"
                    THEN d = (IF Len(args) > 1 THEN 2 ELSE 1)
               ELSE IF spec.action = "store"
                    THEN \/ d = 1 + Len(arg_vals'[FirstMatch].v)
                         \/ /\ d = 2 + Len(arg_vals'[FirstMatch].v)
                            /\ tDD \in Range(SubSeq(args, 2, d))
               ELSE d >= 1

(* every token that leaves args in a step goes to a spec or to unknown *)
C19Step ==
    return_unknown =>
        /\ StepKind(Cur) = "Unknown" => unknown' \o args' = unknown \o args
        /\ (StepKind(Cur) = "Positional" /\ pc' = "loop") =>
              \E c \in 0..Len(args) :
                  unknown' \o args' = unknown \o SubSeq(args, c + 1, Len(args))
        /\ StepKind(Cur) = "Extra" => unknown' = unknown \o args /\ args' = args
        /\ StepKind(Cur) = "Finish" => unknown' = unknown /\ args' = args

(* C19: in every tolerant-mode parse that returns, each input token is     *)
(* accounted for exactly once: taken by a declared spec (as the dispatched *)
(* spelling or as a value), dropped as a `--` separator inside a           *)
(* variable-arity extraction, or placed in the leftover list; the leftover *)
(* list is a subsequence of the input in its original order.               *)
C19_TokensAccountedOnce ==
    /\ []C19Accounted
    /\ [][C19Dispatch /\ C19Step]_vars

C19_Witness ==
    /\ pc = "returned" /\ return_unknown
    /\ argv = <<tU, tO, tDD>> /\ args = <<>>
    /\ unknown = <<tU>>
    /\ Len(opt) = 1 /\ arg_vals[1] = ListV(<<>>)

(* a one-or-more store spec *)
C20Plus(spec) == spec.action = "store" /\ spec.nargs.kind = "+"

(* the front token of a is option-looking and is not the `--` separator *)
C20Stopped(a) == a # <<>> /\ LooksLikeOpt(a[1]) /\ a[1] # tDD

C20Named ==
    (StepKind(Cur) = "Dispatch" /\ C20Plus(opt[FirstMatch])) =>
        /\ pc' = "loop" => Len(arg_vals'[FirstMatch].v) >= 1
        /\ C20Stopped(Tail(args)) =>
              pc' = "exit2" /\ err' = MissingValueErr(opt[FirstMatch])

C20Positional ==
    (StepKind(Cur) = "Positional" /\ Len(pos) = 1 /\ C20Plus(pos[1])) =>
        /\ pc' = "loop" => Len(arg_vals'[Len(arg_vals')].v) >= 1
        /\ C20Stopped(args) => pc' = "exit2" /\ err' = MissingValueErr(pos[1])

(* C20: a one-or-more extraction that does not fail returns at least one   *)
(* value; when the remaining tokens are non-empty but the front token is   *)
(* option-looking (no `--` seen), it fails with MissingValue rather than   *)
(* returning an empty list.                                                *)
C20_PlusNeverEmpty == [][C20Named /\ C20Positional]_vars

====
